---- MODULE Spec2Model ----
(***************************************************************************)
(* Model of the oscilloscope driver class `osc`                            *)
(* (jupyter/redpitaya/drv/osc.py).                                         *)
(*                                                                         *)
(* The register block is the record `regset`, the sample buffer is the     *)
(* function `table` over 0..N-1.  Every method and property setter of the  *)
(* class is one action.  Three bookkeeping variables record what a call    *)
(* did: `op` is the last state-changing call with its argument, `err` the  *)
(* exception it raised ("none" if it returned), and `ret` the last value a *)
(* getter returned since then.                                             *)
(*                                                                         *)
(* Number representation.                                                  *)
(*  - Python floats (levels, scale factors, sample volts) are exact        *)
(*    rationals [num, den] with den > 0.                                   *)
(*  - The status counters sts_pre / sts_pst are full 32-bit words; they    *)
(*    are kept as two 16-bit limbs [hi, lo] and the arithmetic on them is  *)
(*    done limb by limb with the 32-bit wrap-around made explicit.         *)
(*  - The buffer length N is 2**14 in the source; the model scales it      *)
(*    down so that every pointer, every size and the wrap-around can be    *)
(*    enumerated.                                                          *)
(***************************************************************************)
EXTENDS Integers, Sequences, FiniteSets, TLC

VARIABLES regset, input_range, table, op, ret, err

vars == <<regset, input_range, table, op, ret, err>>

(***************************************************************************)
(* Bounds of the model.                                                    *)
(***************************************************************************)
\* buffer length (osc.N, scaled down from 2**14)
N == 8
\* levels offered to the level setter are k / LevelDen, |k| <= MaxLevelNum
LevelDen == 4
MaxLevelNum == 5
\* decimation factors offered to the decimation setter are 1..MaxDecimation
MaxDecimation == 5
\* hold off times offered to the holdoff setter are 0..MaxHoldoff
MaxHoldoff == 3

(***************************************************************************)
(* Class constants.                                                        *)
(***************************************************************************)
DW == 16
DWr == (2 ^ (DW - 1)) - 1

CTL_TRG_MASK == 8
CTL_STP_MASK == 4
CTL_STR_MASK == 2
CTL_RST_MASK == 1

\* the edge dictionary with the code of the alias 'n' mistyped
edges_mistyped ==
    ("positive" :> 0) @@ ("negative" :> 1) @@
    ("pos" :> 0)      @@ ("neg" :> 1) @@
    ("p" :> 0)        @@ ("n" :> 0) @@
    ("+" :> 0)        @@ ("-" :> 1)

edges ==
    ("positive" :> 0) @@ ("negative" :> 1) @@
    ("pos" :> 0)      @@ ("neg" :> 1) @@
    ("p" :> 0)        @@ ("n" :> 1) @@
    ("+" :> 0)        @@ ("-" :> 1)

ranges == {1, 20}

filters ==
    (1  :> <<32147, 276423, 14260634, 9830>>) @@
    (20 :> <<19551, 193419, 14260634, 9830>>)

\* names bound by the module's import statements
Imports == {"os", "fcntl", "mmap", "np"}

\* field names of regset_dtype (the reserved word is never accessed by name)
RegFields ==
    {"ctl_sts", "irq_ena", "irq_sts", "cfg_rst", "cfg_str", "cfg_stp",
     "cfg_trg", "cfg_pre", "cfg_pst", "sts_pre", "sts_pst", "cfg_neg",
     "cfg_pos", "cfg_edg", "cfg_hld", "cfg_dec", "cfg_shr", "cfg_avg",
     "cfg_byp", "cfg_faa", "cfg_fbb", "cfg_fkk", "cfg_fpp"}

(***************************************************************************)
(* Arithmetic helpers.                                                     *)
(***************************************************************************)
Rat(n, d) == [num |-> n, den |-> d]

RatMul(a, b) == Rat(a.num * b.num, a.den * b.den)

RatLeq(a, b) == a.num * b.den <= b.num * a.den

Abs(x) == IF x < 0 THEN -x ELSE x

RECURSIVE BitAnd(_, _)
BitAnd(a, b) ==
    IF a = 0 \/ b = 0 THEN 0
    ELSE (a % 2) * (b % 2) + 2 * BitAnd(a \div 2, b \div 2)

\* 32-bit words as two 16-bit limbs
U32(h, l) == [hi |-> h, lo |-> l]

U32And(x, y) == U32(BitAnd(x.hi, y.hi), BitAnd(x.lo, y.lo))

\* carry out of bit 31 of x + y
U32Carry(x, y) == (x.hi + y.hi + ((x.lo + y.lo) \div 65536)) \div 65536

\* uint32 addition: the sum modulo 2**32
U32Add(x, y) ==
    U32((x.hi + y.hi + ((x.lo + y.lo) \div 65536)) % 65536,
        (x.lo + y.lo) % 65536)

\* x % n for a 32-bit word x and a small positive n
U32Mod(x, n) == (((x.hi % n) * (65536 % n)) + x.lo) % n

\* StoreInt32 rounding to the nearest integer instead of truncating
StoreInt32_rounding(q) == ((2 * q.num) + q.den) \div (2 * q.den)

\* assignment of a float to an int32 field: the C conversion, toward zero
StoreInt32(q) ==
    IF q.num >= 0 THEN q.num \div q.den ELSE -((-q.num) \div q.den)

\* str.format with nargs positional arguments on a template with nfields
\* "{}" fields; the result is the exception the raise statement ends with
RaiseValueError(nfields, nargs) ==
    IF nargs >= nfields THEN "ValueError" ELSE "IndexError"

\* a state-changing call and its argument
Call(n, a) == [name |-> n, args |-> a]

NoRet == [of |-> "none", args |-> <<>>, val |-> 0]

Returned(name, a, v) == [of |-> name, args |-> a, val |-> v]

(***************************************************************************)
(* Construction.                                                           *)
(***************************************************************************)
ZeroRegset ==
    [f \in RegFields |->
        IF f \in {"sts_pre", "sts_pst"} THEN U32(0, 0) ELSE 0]

\* filter_coeficients setter, as a function of the register block
FilterCoefWrite(rs, value) ==
    [rs EXCEPT !.cfg_faa = value[1], !.cfg_fbb = value[2],
               !.cfg_fkk = value[3], !.cfg_fpp = value[4]]

\* __init__: the mappings hold whatever the hardware holds (tables, sts a
\* set of counter values), and the input range is set through its setter
InitWith(tables, sts) ==
    /\ table \in tables
    /\ \E r \in ranges, pre \in sts, pst \in sts :
          /\ input_range = r
          /\ regset = FilterCoefWrite(
                 [ZeroRegset EXCEPT !.sts_pre = pre, !.sts_pst = pst],
                 filters[r])
    /\ op = Call("init", <<>>)
    /\ ret = NoRet
    /\ err = "none"

ZeroTable == [i \in 0 .. N - 1 |-> 0]

(***************************************************************************)
(* Acquisition control.                                                    *)
(***************************************************************************)
reset ==
    /\ regset' = [regset EXCEPT !.ctl_sts = CTL_RST_MASK]
    /\ op' = Call("reset", <<>>)
    /\ ret' = NoRet
    /\ err' = "none"
    /\ UNCHANGED <<input_range, table>>

\* start writing the stop mask
start_stop_mask ==
    /\ regset' = [regset EXCEPT !.ctl_sts = CTL_STP_MASK]
    /\ op' = Call("start", <<>>)
    /\ ret' = NoRet
    /\ err' = "none"
    /\ UNCHANGED <<input_range, table>>

start ==
    /\ regset' = [regset EXCEPT !.ctl_sts = CTL_STR_MASK]
    /\ op' = Call("start", <<>>)
    /\ ret' = NoRet
    /\ err' = "none"
    /\ UNCHANGED <<input_range, table>>

stop ==
    /\ regset' = [regset EXCEPT !.ctl_sts = CTL_STP_MASK]
    /\ op' = Call("stop", <<>>)
    /\ ret' = NoRet
    /\ err' = "none"
    /\ UNCHANGED <<input_range, table>>

trigger ==
    /\ regset' = [regset EXCEPT !.ctl_sts = CTL_TRG_MASK]
    /\ op' = Call("trigger", <<>>)
    /\ ret' = NoRet
    /\ err' = "none"
    /\ UNCHANGED <<input_range, table>>

Getter(name, a, v) ==
    /\ ret' = Returned(name, a, v)
    /\ UNCHANGED <<regset, input_range, table, op, err>>

status_run ==
    Getter("status_run", <<>>, BitAnd(regset.ctl_sts, CTL_STR_MASK) # 0)

status_trigger ==
    Getter("status_trigger", <<>>, BitAnd(regset.ctl_sts, CTL_TRG_MASK) # 0)

mask_set(value) ==
    /\ regset' = [regset EXCEPT !.cfg_rst = value[1], !.cfg_str = value[2],
                                !.cfg_stp = value[3], !.cfg_trg = value[4]]
    /\ op' = Call("mask", value)
    /\ ret' = NoRet
    /\ err' = "none"
    /\ UNCHANGED <<input_range, table>>

(***************************************************************************)
(* Input range and filter.                                                 *)
(***************************************************************************)
\* the input range setter without the write of the filter preset
input_range_set_no_preset(value) ==
    /\ IF value \in ranges
       THEN /\ input_range' = value
            /\ err' = "none"
            /\ UNCHANGED regset
       ELSE /\ err' = RaiseValueError(1, 1)
            /\ UNCHANGED <<regset, input_range>>
    /\ op' = Call("input_range", value)
    /\ ret' = NoRet
    /\ UNCHANGED table

input_range_set(value) ==
    /\ IF value \in ranges
       THEN /\ input_range' = value
            /\ regset' = FilterCoefWrite(regset, filters[value])
            /\ err' = "none"
       ELSE /\ err' = RaiseValueError(1, 1)
            /\ UNCHANGED <<regset, input_range>>
    /\ op' = Call("input_range", value)
    /\ ret' = NoRet
    /\ UNCHANGED table

filter_coeficients_set(value) ==
    /\ regset' = FilterCoefWrite(regset, value)
    /\ op' = Call("filter_coeficients", value)
    /\ ret' = NoRet
    /\ err' = "none"
    /\ UNCHANGED <<input_range, table>>

filter_coeficients_get ==
    Getter("filter_coeficients", <<>>,
           <<regset.cfg_faa, regset.cfg_fbb, regset.cfg_fkk, regset.cfg_fpp>>)

\* attribute assignment on the register record: a name that is no field of
\* the dtype (and no attribute of the record) raises AttributeError
SetField(rs, name, v) ==
    IF name \in RegFields THEN [rs EXCEPT ![name] = v] ELSE rs

SetFieldError(name) ==
    IF name \in RegFields THEN "none" ELSE "AttributeError"

filter_bypass_set(value) ==
    /\ IF value
       THEN /\ regset' = SetField(regset, "cfg_byp", 1)
            /\ err' = SetFieldError("cfg_byp")
       ELSE /\ regset' = SetField(regset, "cfg_mod", 0)
            /\ err' = SetFieldError("cfg_mod")
    /\ op' = Call("filter_bypass", value)
    /\ ret' = NoRet
    /\ UNCHANGED <<input_range, table>>

filter_bypass_get == Getter("filter_bypass", <<>>, regset.cfg_byp # 0)

(***************************************************************************)
(* Trigger configuration.                                                  *)
(***************************************************************************)
LevelInRange(v) == RatLeq(Rat(-1, 1), v) /\ RatLeq(v, Rat(1, 1))

\* the count stored for level v: v * scale with scale = DWr / input_range,
\* assigned to an int32 field
LevelCount(v, range) == StoreInt32(RatMul(v, Rat(DWr, range)))

level_set(value) ==
    /\ IF LevelInRange(value[1])
       THEN IF LevelInRange(value[2])
            THEN /\ regset' =
                      [regset EXCEPT
                          !.cfg_neg = LevelCount(value[1], input_range),
                          !.cfg_pos = LevelCount(value[2], input_range)]
                 /\ err' = "none"
            ELSE /\ regset' =
                      [regset EXCEPT
                          !.cfg_neg = LevelCount(value[1], input_range)]
                 /\ err' = RaiseValueError(2, 1)
       ELSE /\ err' = RaiseValueError(2, 1)
            /\ UNCHANGED regset
    /\ op' = Call("level", value)
    /\ ret' = NoRet
    /\ UNCHANGED <<input_range, table>>

level_get ==
    Getter("level", <<>>,
           <<RatMul(Rat(regset.cfg_neg, 1), Rat(input_range, DWr)),
             RatMul(Rat(regset.cfg_pos, 1), Rat(input_range, DWr))>>)

edge_set(value) ==
    /\ IF value \in DOMAIN edges
       THEN /\ regset' = [regset EXCEPT !.cfg_edg = edges[value]]
            /\ err' = "none"
       ELSE /\ err' = RaiseValueError(1, 1)
            /\ UNCHANGED regset
    /\ op' = Call("edge", value)
    /\ ret' = NoRet
    /\ UNCHANGED <<input_range, table>>

edge_get == Getter("edge", <<>>, <<"pos", "neg">>[regset.cfg_edg + 1])

holdoff_set(value) ==
    /\ regset' = [regset EXCEPT !.cfg_hld = value]
    /\ op' = Call("holdoff", value)
    /\ ret' = NoRet
    /\ err' = "none"
    /\ UNCHANGED <<input_range, table>>

holdoff_get == Getter("holdoff", <<>>, regset.cfg_hld)

(***************************************************************************)
(* Decimation and averaging.                                               *)
(***************************************************************************)
decimation == regset.cfg_dec + 1

decimation_set(value) ==
    /\ regset' = [regset EXCEPT !.cfg_dec = value - 1]
    /\ op' = Call("decimation", value)
    /\ ret' = NoRet
    /\ err' = "none"
    /\ UNCHANGED <<input_range, table>>

\* math.ceil(math.log2(d)) for an integer d >= 1
RECURSIVE CeilLog2(_)
CeilLog2(d) == IF d <= 1 THEN 0 ELSE 1 + CeilLog2((d + 1) \div 2)

\* the second statement names the module `math`: with no such name bound
\* it raises NameError after the first statement has written cfg_avg
average_set(value) ==
    /\ IF "math" \in Imports
       THEN /\ regset' = [regset EXCEPT
                             !.cfg_avg = IF value THEN 1 ELSE 0,
                             !.cfg_shr = CeilLog2(decimation)]
            /\ err' = "none"
       ELSE /\ regset' = [regset EXCEPT
                             !.cfg_avg = IF value THEN 1 ELSE 0]
            /\ err' = "NameError"
    /\ op' = Call("average", value)
    /\ ret' = NoRet
    /\ UNCHANGED <<input_range, table>>

average_get == Getter("average", <<>>, regset.cfg_avg # 0)

(***************************************************************************)
(* Sample buffer.                                                          *)
(***************************************************************************)
\* 0x7fffffff
StsMask == U32(32767, 65535)

\* the pointer with the pre trigger counter summed twice
pointer_pre_twice ==
    U32Mod(U32Add(U32And(regset.sts_pre, StsMask),
                  U32And(regset.sts_pre, StsMask)), N)

\* mask out overflow bit and sum pre and post trigger counters (uint32)
pointer ==
    U32Mod(U32Add(U32And(regset.sts_pre, StsMask),
                  U32And(regset.sts_pst, StsMask)), N)

pointer_get == Getter("pointer", <<>>, pointer)

Max(a, b) == IF a >= b THEN a ELSE b

Min(a, b) == IF a <= b THEN a ELSE b

\* np.roll(a, shift): the element at index i moves to index (i + shift) % N
roll(a, shift) == [i \in 0 .. N - 1 |-> a[(i - shift) % N]]

\* first index taken by the slice a[from:] of an array of length len
SliceStart(len, from) ==
    IF from < 0 THEN Max(len + from, 0) ELSE Min(from, len)

\* data() rolling the table the other way
data_value_roll_forward(siz, ptr) ==
    LET rolled == roll(table, ptr)
        first == SliceStart(N, -siz)
    IN  [k \in 1 .. (N - first) |->
            RatMul(Rat(rolled[first + k - 1], 1), Rat(input_range, DWr))]

\* the array data() returns, as a sequence of rationals (volts)
data_value(siz, ptr) ==
    LET rolled == roll(table, -ptr)
        first == SliceStart(N, -siz)
    IN  [k \in 1 .. (N - first) |->
            RatMul(Rat(rolled[first + k - 1], 1), Rat(input_range, DWr))]

\* ptrarg is <<>> for ptr = None and <<p>> for ptr = p
data(siz, ptrarg) ==
    LET ptr == IF ptrarg = <<>> THEN pointer ELSE ptrarg[1]
    IN  Getter("data", <<siz, ptrarg>>, data_value(siz, ptr))

\* the hardware advances its status counters
HwStatus(pre, pst) ==
    /\ regset' = [regset EXCEPT !.sts_pre = pre, !.sts_pst = pst]
    /\ op' = Call("hw", <<pre, pst>>)
    /\ ret' = NoRet
    /\ UNCHANGED <<input_range, table, err>>

(***************************************************************************)
(* Inputs offered to the operations.                                       *)
(***************************************************************************)
MaskValues == [1 .. 4 -> {0, 1}]

RangeInputs == ranges \cup {0, 2, 21}

CoefInputs == {<<0, 0, 0, 0>>, <<1, -1, 2, -2>>}

Levels == {Rat(k, LevelDen) : k \in -MaxLevelNum .. MaxLevelNum}

LevelPairs == Levels \X Levels

EdgeInputs ==
    DOMAIN edges \cup {"", "POS", "rising", "positive ", "negative edge", "0"}

DecimationInputs == 1 .. MaxDecimation

HoldoffInputs == 0 .. MaxHoldoff

\* status counter words: small counts, counts at the 16-bit and 31-bit
\* limits, each with and without the overflow bit
StsSamples ==
    {U32(h, l) : h \in {0, 1, 32767, 32768, 65535}, l \in {0, 3, 5, 65535}}

StsFew == {U32(0, 3), U32(32768, 5), U32(65535, 65535)}

Int16(x) == ((x + 32768) % 65536) - 32768

\* buffer contents: ramps of pairwise distinct samples that cross the int16
\* limits, and a buffer with four known samples in slots 4..7
TableInits ==
    {[i \in 0 .. N - 1 |-> Int16(seed + (100 * i))] :
        seed \in {-32768, 32500}}
    \cup
    {[i \in 0 .. N - 1 |->
        CASE i = 4 -> 100 [] i = 5 -> -200 [] i = 6 -> 300 [] i = 7 -> -400
          [] OTHER -> 0]}

Sizes == 0 .. N

PtrArgs == {<<>>} \cup {<<p>> : p \in 0 .. N - 1}

(***************************************************************************)
(* Specifications.  Spec is the whole driver; the others restrict it to    *)
(* one component, with the inputs that component reads.                    *)
(***************************************************************************)
NextCtl ==
    \/ reset
    \/ start
    \/ stop
    \/ trigger
    \/ status_run
    \/ status_trigger
    \/ \E value \in MaskValues : mask_set(value)

NextTrig ==
    \/ \E value \in LevelPairs : level_set(value)
    \/ level_get

NextEdge ==
    \/ \E value \in EdgeInputs : edge_set(value)
    \/ edge_get
    \/ \E value \in HoldoffInputs : holdoff_set(value)
    \/ holdoff_get
    \/ \E value \in CoefInputs : filter_coeficients_set(value)
    \/ filter_coeficients_get

NextAcq ==
    \/ \E value \in RangeInputs : input_range_set(value)
    \/ \E value \in BOOLEAN : filter_bypass_set(value)
    \/ filter_bypass_get
    \/ \E value \in DecimationInputs : decimation_set(value)
    \/ \E value \in BOOLEAN : average_set(value)
    \/ average_get

NextPtr ==
    \/ \E pre \in StsSamples, pst \in StsSamples : HwStatus(pre, pst)
    \/ pointer_get

NextData ==
    \E siz \in Sizes, ptrarg \in PtrArgs : data(siz, ptrarg)

Next == NextCtl \/ NextTrig \/ NextEdge \/ NextAcq \/ NextPtr \/ NextData

Init == InitWith(TableInits, StsFew)

Spec == Init /\ [][Next]_vars

SpecCtl == InitWith({ZeroTable}, {U32(0, 0)}) /\ [][NextCtl]_vars

SpecTrig == InitWith({ZeroTable}, {U32(0, 0)}) /\ [][NextTrig]_vars

SpecEdge == InitWith({ZeroTable}, {U32(0, 0)}) /\ [][NextEdge]_vars

SpecAcq == InitWith({ZeroTable}, {U32(0, 0)}) /\ [][NextAcq]_vars

SpecPtr == InitWith({ZeroTable}, StsSamples) /\ [][NextPtr]_vars

SpecData == InitWith(TableInits, StsFew) /\ [][NextData]_vars

(***************************************************************************)
(* Properties.                                                             *)
(***************************************************************************)
BothInRange(value) == LevelInRange(value[1]) /\ LevelInRange(value[2])

\* C1: a level pair with a component outside [-1.0, 1.0] is rejected with
\* an error (any exception counts) and leaves cfg_neg and cfg_pos as they
\* were, whichever component is the invalid one.
C1_RejectedLevelWritesNothing ==
    [][(op'.name = "level" /\ ~BothInRange(op'.args))
          => /\ err' # "none"
             /\ regset'.cfg_neg = regset.cfg_neg
             /\ regset'.cfg_pos = regset.cfg_pos]_vars

\* the sample of a slot in volts
Volts(raw) == Rat(raw * input_range, DWr)

\* ((sts_pre & 0x7fffffff) + (sts_pst & 0x7fffffff)) mod N in unbounded
\* arithmetic: the counts are the low 31 bits, and 2**16 is reduced modulo
\* N before it multiplies the sum of the high limbs
PointerRef ==
    ((((regset.sts_pre.hi % 32768) + (regset.sts_pst.hi % 32768))
         * (65536 % N))
     + regset.sts_pre.lo + regset.sts_pst.lo) % N

\* C2: for 1 <= s <= N and p in 0..N-1, data(s, p) is the s samples of
\* slots (p - s + k) mod N, k = 0..s-1, oldest first, in volts: it starts
\* at slot (N + p - s) mod N and ends at slot p - 1; with no pointer given
\* p is the pointer computed from sts_pre and sts_pst.
C2_DataWindow ==
    (ret.of = "data" /\ ret.args[1] \in 1 .. N) =>
        LET s == ret.args[1]
            p == IF ret.args[2] = <<>> THEN PointerRef ELSE ret.args[2][1]
        IN  /\ p \in 0 .. N - 1
            /\ DOMAIN ret.val = 1 .. s
            /\ \A k \in 0 .. s - 1 :
                  ret.val[k + 1] = Volts(table[(p - s + k) % N])
            /\ ret.val[1] = Volts(table[(N + p - s) % N])
            /\ ret.val[s] = Volts(table[(N + p - 1) % N])

\* a window of at least two samples that crosses the end of the buffer,
\* read at the pointer taken from the status counters
C2_Witness ==
    /\ ret.of = "data"
    /\ ret.args[2] = <<>>
    /\ ret.args[1] \in 2 .. N - 1
    /\ PointerRef < ret.args[1]
    /\ PointerRef > 0
    /\ ret.val[1] # ret.val[ret.args[1]]

\* C3: pointer is ((sts_pre & 0x7fffffff) + (sts_pst & 0x7fffffff)) mod N
\* for all 32-bit counter values: it lies in 0..N-1, the top bit of either
\* counter plays no part, and the 32-bit sum of the masked counters has no
\* carry out, so nothing is lost before the modulo.
C3_Pointer ==
    ret.of = "pointer" =>
        /\ ret.val \in 0 .. N - 1
        /\ ret.val = PointerRef
        /\ U32Carry(U32And(regset.sts_pre, StsMask),
                    U32And(regset.sts_pst, StsMask)) = 0

\* both counters at their largest value with the overflow bit set
C3_Witness ==
    /\ ret.of = "pointer"
    /\ regset.sts_pre = U32(65535, 65535)
    /\ regset.sts_pst = U32(65535, 65535)

\* C4: setting filter_bypass to false completes without an error and
\* leaves cfg_byp = 0, so that the getter returns false, from any state.
C4_BypassDisabled ==
    (op.name = "filter_bypass" /\ op.args = FALSE)
        => /\ err = "none"
           /\ regset.cfg_byp = 0
           /\ ret.of = "filter_bypass" => ret.val = FALSE

PositiveAliases == {"positive", "pos", "p", "+"}

NegativeAliases == {"negative", "neg", "n", "-"}

\* C5: the edge setter stores 0 for each positive alias and 1 for each
\* negative alias; any other string raises ValueError and changes no
\* register.
C5_EdgeSetter ==
    [][op'.name = "edge"
          => /\ op'.args \in PositiveAliases
                 => (regset'.cfg_edg = 0 /\ err' = "none")
             /\ op'.args \in NegativeAliases
                 => (regset'.cfg_edg = 1 /\ err' = "none")
             /\ op'.args \notin (PositiveAliases \cup NegativeAliases)
                 => (err' = "ValueError" /\ regset' = regset)]_vars

\* an unknown string was rejected while the negative edge stays selected
C5_Witness ==
    /\ op.name = "edge"
    /\ op.args \notin DOMAIN edges
    /\ err = "ValueError"
    /\ regset.cfg_edg = 1

\* C6: with ctl_sts plain memory, status_run() returns false when the last
\* command was reset() and true when the last command was start().
C6_RunStatus ==
    ret.of = "status_run" =>
        /\ op.name = "reset" => ret.val = FALSE
        /\ op.name = "start" => ret.val = TRUE

\* status_run() answered true after start()
C6_Witness == ret.of = "status_run" /\ op.name = "start" /\ ret.val = TRUE

\* s = ceil(log2(d)) for d >= 1
IsCeilLog2(s, d) == (2 ^ s >= d) /\ (s = 0 \/ 2 ^ (s - 1) < d)

\* C7: setting average to true completes, sets cfg_avg = 1 and writes
\* cfg_shr = ceil(log2(decimation)) with decimation = cfg_dec + 1.
C7_AverageWritesShift ==
    (op.name = "average" /\ op.args = TRUE)
        => /\ err = "none"
           /\ regset.cfg_avg = 1
           /\ IsCeilLog2(regset.cfg_shr, regset.cfg_dec + 1)

PresetHeld ==
    /\ input_range \in {1, 20}
    /\ <<regset.cfg_faa, regset.cfg_fbb, regset.cfg_fkk, regset.cfg_fpp>>
          = filters[input_range]

\* C8: after construction and any input_range assignments the stored range
\* is 1.0 or 20.0 and cfg_faa, cfg_fbb, cfg_fkk, cfg_fpp hold the preset of
\* that range; assigning another value raises ValueError and changes
\* neither the stored range nor a register.
C8_RangePreset ==
    /\ []PresetHeld
    /\ [][(op'.name = "input_range" /\ op'.args \notin {1, 20})
             => /\ err' = "ValueError"
                /\ input_range' = input_range
                /\ regset' = regset]_vars

\* the range was switched to 20.0 and its preset is in the registers
C8_Witness ==
    /\ op.name = "input_range"
    /\ op.args = 20
    /\ err = "none"
    /\ input_range = 20
    /\ regset.cfg_faa = 19551
    /\ regset.cfg_fbb = 193419

\* c is v * DWr / range rounded to a nearest integer
IsNearest(c, v, range) ==
    2 * Abs((c * v.den * range) - (v.num * DWr)) <= v.den * range

\* c is v * DWr / range with the fraction dropped (toward zero)
IsTruncated(c, v, range) ==
    LET x == v.num * DWr
        d == v.den * range
    IN  IF x >= 0
        THEN c >= 0 /\ c * d <= x /\ x < (c + 1) * d
        ELSE c <= 0 /\ (-c) * d <= -x /\ -x < ((-c) + 1) * d

\* C9 as stated: for in-range levels the setter stores
\* round(v * DWr / input_range), the nearest integer, in cfg_neg and
\* cfg_pos.
C9_LevelRounded ==
    (op.name = "level" /\ BothInRange(op.args))
        => /\ IsNearest(regset.cfg_neg, op.args[1], input_range)
           /\ IsNearest(regset.cfg_pos, op.args[2], input_range)

\* C9 amended: for in-range levels the setter returns normally and stores
\* v * DWr / input_range truncated toward zero in cfg_neg and cfg_pos.
C9_LevelTruncated ==
    (op.name = "level" /\ BothInRange(op.args))
        => /\ err = "none"
           /\ IsTruncated(regset.cfg_neg, op.args[1], input_range)
           /\ IsTruncated(regset.cfg_pos, op.args[2], input_range)

\* levels were stored whose counts are not the nearest integers, one
\* positive and one negative
C9_Witness ==
    /\ op.name = "level"
    /\ BothInRange(op.args)
    /\ err = "none"
    /\ op.args[1].num < 0
    /\ op.args[2].num > 0
    /\ ~IsNearest(regset.cfg_neg, op.args[1], input_range)
    /\ ~IsNearest(regset.cfg_pos, op.args[2], input_range)

\* C10: for 0 <= s <= N, data(s, pointer) returns exactly s elements.
C10_DataLength ==
    ret.of = "data" => DOMAIN ret.val = 1 .. ret.args[1]

====
